---- MODULE Spec2Model ----
(***************************************************************************)
(* Model of app4.py: the /api/route handler api_route and the helpers it   *)
(* calls (geocode_place, mapbox_directions, color_for_congestion).         *)
(*                                                                         *)
(* One request is followed from its arrival to its response.  The handler  *)
(* is cut at its outbound HTTP calls: every action is the code from one    *)
(* call up to (not including) the next one, or up to the return.  The      *)
(* provider's reply to each call is the input of the action.               *)
(*                                                                         *)
(* Representation of values                                                *)
(*   strings of the query      sequences of one-character strings          *)
(*   latitudes, longitudes     strings ("28.6"); None is the string "None" *)
(*   route durations           integers, unit 1/4 second (exact in binary  *)
(*                             floating point, so are their differences)   *)
(*   speeds (annotation)       integers, unit 1/100 m/s                    *)
(*   speed_kmh (response)      integers, unit 1/10 km/h                    *)
(*   JSON values of unknown    records [t, s, n]: t is the JSON type, s    *)
(*   type (annotation entry)   the string value, n the numeric value       *)
(***************************************************************************)
EXTENDS Integers, Sequences, FiniteSets

VARIABLES
    pc,           \* position of the handler
    args,         \* request.args: the raw query parameters
    start, end,   \* locals of api_route (lines 62-63)
    lat1, lon1,   \* locals of api_route (line 68)
    lat2, lon2,   \* locals of api_route (line 69)
    base_routes,  \* local of api_route (line 77)
    live_routes,  \* local of api_route (line 84)
    calls,        \* outbound calls issued so far, in order
    replies,      \* the provider's reply to each call, aligned with calls
    raised,       \* exception that left api_route unhandled ("" if none)
    response      \* what api_route returned (status 0: nothing returned)

vars == <<pc, args, start, end, lat1, lon1, lat2, lon2, base_routes,
          live_routes, calls, replies, raised, response>>

(***************************************************************************)
(* Bounds of the model.                                                    *)
(***************************************************************************)
MaxStrLen == 3   \* longest query parameter
MaxRoutes == 2   \* most routes in a directions reply (pipeline)
MaxVerts == 2    \* most vertices of a route geometry (assembly)
MaxAnn == 1      \* longest annotation array of the shape routes (assembly)
MaxLive == 2     \* most live routes in a reply (assembly, delay)
MaxBase == 1     \* most baseline routes in a reply (delay)
MaxDur == 7      \* longest route duration, in quarter seconds (delay)

Max(a, b) == IF a >= b THEN a ELSE b

SeqsUpTo(S, n) == UNION {[1..k -> S] : k \in 0..n}

NonEmptySeqsUpTo(S, n) == UNION {[1..k -> S] : k \in 1..n}

(***************************************************************************)
(* Python built-ins used by the handler.                                   *)
(***************************************************************************)
None == "None"

Whitespace == {" "}

RECURSIVE lstrip(_)
lstrip(s) == IF s # <<>> /\ Head(s) \in Whitespace THEN lstrip(Tail(s)) ELSE s

RECURSIVE rstrip(_)
rstrip(s) ==
    IF s # <<>> /\ s[Len(s)] \in Whitespace
    THEN rstrip(SubSeq(s, 1, Len(s) - 1))
    ELSE s

\* variant of strip that leaves the string as it is
strip_identity(s) == s

\* str.strip()
strip(s) == rstrip(lstrip(s))

\* round(x) of a number given in quarters: nearest integer, ties to even
PyRound(q) ==
    LET f == q \div 4
        r == q % 4
    IN  IF r < 2 THEN f
        ELSE IF r > 2 THEN f + 1
        ELSE IF f % 2 = 0 THEN f ELSE f + 1

\* round(speed_ms * 3.6, 1): from 1/100 m/s to 1/10 km/h.  36 * c is never
\* halfway between two multiples of 100, so no tie arises.
RoundKmh(c) == (36 * c + 50) \div 100

(***************************************************************************)
(* JSON values.                                                            *)
(***************************************************************************)
JNull == [t |-> "null", s |-> "", n |-> 0]
JStr(x) == [t |-> "str", s |-> x, n |-> 0]
JNum(x) == [t |-> "num", s |-> "", n |-> x]
JBool(b) == [t |-> "bool", s |-> "", n |-> IF b THEN 1 ELSE 0]
JList == [t |-> "list", s |-> "", n |-> 0]
JObj == [t |-> "obj", s |-> "", n |-> 0]

\* isinstance(v, (int, float)): bool is a subclass of int
IsIntOrFloat(v) == v.t \in {"num", "bool"}

\* the number a Python int, float or bool stands for, in hundredths
NumericValue(v) == IF v.t = "bool" THEN 100 * v.n ELSE v.n

\* lists and dicts are unhashable
Hashable(v) == v.t \notin {"list", "obj"}

(***************************************************************************)
(* geocode_place, given the provider's reply to its GET.                   *)
(***************************************************************************)
\* variant of geocode_place that reports a failed GET as "not found"
geocode_place_swallow(reply) ==
    IF reply.kind = "ok" /\ reply.features # <<>>
    THEN [exc |-> "", lat |-> reply.features[1][2], lon |-> reply.features[1][1]]
    ELSE [exc |-> "", lat |-> None, lon |-> None]

geocode_place(reply) ==
    IF reply.kind # "ok"
    THEN [exc |-> reply.kind, lat |-> None, lon |-> None]
    ELSE IF reply.features # <<>>
    THEN [exc |-> "", lat |-> reply.features[1][2], lon |-> reply.features[1][1]]
    ELSE [exc |-> "", lat |-> None, lon |-> None]

(***************************************************************************)
(* mapbox_directions followed by .get("routes", []), given the reply.      *)
(***************************************************************************)
mapbox_directions(reply) ==
    IF reply.kind # "ok"
    THEN [exc |-> reply.kind, routes |-> <<>>]
    ELSE [exc |-> "", routes |-> reply.routes]

(***************************************************************************)
(* color_for_congestion: "TypeError" stands for the exception dict.get     *)
(* raises on an unhashable key.                                            *)
(***************************************************************************)
color_for_congestion(c) ==
    IF ~Hashable(c) THEN "TypeError"
    ELSE IF c = JStr("low") THEN "green"
    ELSE IF c = JStr("moderate") THEN "orange"
    ELSE IF c = JStr("heavy") THEN "red"
    ELSE IF c = JStr("severe") THEN "darkred"
    ELSE IF c = JStr("unknown") THEN "gray"
    ELSE IF c = JNull THEN "gray"
    ELSE "gray"

(***************************************************************************)
(* The response assembler (lines 88-135).                                  *)
(***************************************************************************)
\* variant of range_len that stops one segment early
range_len_short(coords) == Len(coords) - 2

\* the argument of range() at line 103
range_len(coords) == Len(coords) - 1

\* line 106-108: arr[i] if i < len(arr) else None   (i counted from 1 here)
EntryOrNone(arr, i) == IF i <= Len(arr) THEN arr[i] ELSE JNull

\* line 114
speed_kmh(speed_ms) ==
    IF IsIntOrFloat(speed_ms)
    THEN JNum(RoundKmh(NumericValue(speed_ms)))
    ELSE JNull

\* lines 104-116: the segment between vertex i and vertex i+1
Segment(live_route, i) ==
    LET coords == live_route.coords
        cong == EntryOrNone(live_route.congestion, i)
        speed_ms == EntryOrNone(live_route.speed, i)
        dur_s == EntryOrNone(live_route.seg_duration, i)
    IN  [coords |-> << <<coords[i][2], coords[i][1]>>,
                       <<coords[i + 1][2], coords[i + 1][1]>> >>,
         congestion |-> cong,
         color |-> color_for_congestion(cong),
         speed_kmh |-> speed_kmh(speed_ms),
         duration_s |-> dur_s]

\* lines 102-116
Segments(live_route) ==
    [i \in 1..range_len(live_route.coords) |-> Segment(live_route, i)]

\* variant of base_duration whose fallback is 0
base_duration_zero(routes, ridx, live_duration) ==
    IF ridx < Len(routes) THEN routes[ridx + 1].duration ELSE 0

\* line 92 (ridx counted from 0, as in the code)
base_duration(routes, ridx, live_duration) ==
    IF ridx < Len(routes) THEN routes[ridx + 1].duration ELSE live_duration

\* variant of delay_s that subtracts the rounded durations
delay_s_of_rounded(live_duration, base_dur) ==
    Max(0, PyRound(live_duration) - PyRound(base_dur))

\* line 118
delay_s(live_duration, base_dur) == Max(0, PyRound(live_duration - base_dur))

\* lines 90-129: one entry of routes_payload
RoutePayload(routes, live, ridx) ==
    LET live_route == live[ridx + 1]
        live_duration == live_route.duration
        base_dur == base_duration(routes, ridx, live_duration)
    IN  [id |-> ridx,
         distance_m |-> live_route.distance,
         durations |-> [base_s |-> PyRound(base_dur),
                        traffic_s |-> PyRound(live_duration),
                        delay_s |-> delay_s(live_duration, base_dur)],
         segments |-> Segments(live_route)]

\* lines 88-129
routes_payload(routes, live) ==
    [k \in 1..Len(live) |-> RoutePayload(routes, live, k - 1)]

\* the loop raises when color_for_congestion does
AssemblyRaises(live) ==
    \E k \in 1..Len(live) :
        \E i \in 1..range_len(live[k].coords) :
            color_for_congestion(EntryOrNone(live[k].congestion, i)) = "TypeError"

(***************************************************************************)
(* Responses.                                                              *)
(***************************************************************************)
NoResponse == [status |-> 0, body |-> [error |-> ""]]

ErrorResponse(code, msg) == [status |-> code, body |-> [error |-> msg]]

OkResponse(s, e, la1, lo1, la2, lo2, payload) ==
    [status |-> 200,
     body |-> [start |-> [name |-> s, lat |-> la1, lon |-> lo1],
               end |-> [name |-> e, lat |-> la2, lon |-> lo2],
               routes |-> payload]]

\* variant of GeocodeFailed that needs both places to be missing
GeocodeFailed_both(la1, la2) == la1 = None /\ la2 = None

\* line 72
GeocodeFailed(la1, la2) == la1 = None \/ la2 = None

\* variant of BaseMissing without the early return
BaseMissing_never(routes) == FALSE

\* line 78: "if not base_routes" decides whether the handler returns early
BaseMissing(routes) == routes = <<>>

\* variant of NoBaseResponse with the status of a client error
NoBaseResponse_400 == ErrorResponse(400, "No base routes found")

\* line 79
NoBaseResponse == ErrorResponse(404, "No base routes found")

(***************************************************************************)
(* Inputs: query parameters and provider replies.                          *)
(***************************************************************************)
Chars == {" ", "D"}

Missing == [present |-> FALSE, value |-> <<>>]

Given(s) == [present |-> TRUE, value |-> s]

\* request.args.get(name, "")
ArgGet(a) == IF a.present THEN a.value ELSE <<>>

ArgValues == {Missing} \cup {Given(s) : s \in SeqsUpTo(Chars, MaxStrLen)}

GoodArgs == {Given(<<"D">>)}

Failures == {"ConnectionError", "HTTPError"}

FailedReply(k) == [kind |-> k, features |-> <<>>, routes |-> <<>>]

GeoReply(features) == [kind |-> "ok", features |-> features, routes |-> <<>>]

DirReply(routes) == [kind |-> "ok", features |-> <<>>, routes |-> routes]

\* a feature is its geometry's coordinates, [lon, lat]
Places == {<<"77.2", "28.6">>, <<"78.0", "27.2">>}

GeoReplies ==
    {FailedReply(k) : k \in Failures} \cup {GeoReply(<<>>)}
        \cup {GeoReply(<<p>>) : p \in Places}

\* the geocoder finds the one place asked for
GeoFound == {GeoReply(<<<<"77.2", "28.6">>>>)}

\* the geometry of a route with n vertices: [lon, lat] pairs
Path(n) == [i \in 1..n |-> <<70 + i, 20 + i>>]

Route(dur, n, cong, speed, segdur) ==
    [distance |-> 1000 * n, duration |-> dur, coords |-> Path(n),
     congestion |-> cong, speed |-> speed, seg_duration |-> segdur]

SimpleRoute == Route(8, 2, <<JStr("low")>>, <<JNum(1000)>>, <<JNum(2)>>)

SimpleReplies ==
    {FailedReply(k) : k \in Failures}
        \cup {DirReply(r) : r \in SeqsUpTo({SimpleRoute}, MaxRoutes)}

(***************************************************************************)
(* Inputs of the assembly runs: live routes of every shape and content.    *)
(***************************************************************************)
CongValues ==
    {JStr("low"), JStr("moderate"), JStr("heavy"), JStr("severe"),
     JStr("unknown"), JStr("closed"), JNull, JNum(3), JBool(TRUE), JList, JObj}

SpeedValues ==
    {JNum(0), JNum(1), JNum(2), JNum(1234), JNum(1389), JNull, JStr("12"),
     JBool(TRUE), JBool(FALSE), JList}

Fill(n, v) == [i \in 1..n |-> v]

\* every vertex count with every length of the annotation arrays
ShapeRoutes ==
    {Route(8, n, Fill(lc, JStr("heavy")), Fill(ls, JNum(1000)), Fill(ls, JNum(6))) :
        n \in 0..MaxVerts, lc \in 0..MaxAnn, ls \in 0..MaxAnn}

\* two segments: the first carries the annotation entry, the second has none
ContentRoutes ==
    {Route(8, 3, <<c>>, <<JNum(1000)>>, <<>>) : c \in CongValues}
        \cup {Route(8, 3, <<JStr("low")>>, <<s>>, <<>>) : s \in SpeedValues}

AssembleBase == {DirReply(<<SimpleRoute>>)}

AssembleLive ==
    {DirReply(r) : r \in NonEmptySeqsUpTo(ShapeRoutes \cup ContentRoutes, MaxLive)}

(***************************************************************************)
(* Inputs of the delay runs: baseline and live routes of every duration.   *)
(***************************************************************************)
TimedRoutes ==
    {Route(d, 2, <<JStr("low")>>, <<JNum(1000)>>, <<JNum(2)>>) : d \in 0..MaxDur}

DelayBase == {DirReply(r) : r \in NonEmptySeqsUpTo(TimedRoutes, MaxBase)}

DelayLive == {DirReply(r) : r \in NonEmptySeqsUpTo(TimedRoutes, MaxLive)}

(***************************************************************************)
(* The handler, one action per stretch of code between outbound calls.     *)
(***************************************************************************)
Init ==
    /\ pc = "validate"
    /\ args = [start |-> Missing, end |-> Missing]
    /\ start = <<>>
    /\ end = <<>>
    /\ lat1 = None /\ lon1 = None
    /\ lat2 = None /\ lon2 = None
    /\ base_routes = <<>>
    /\ live_routes = <<>>
    /\ calls = <<>>
    /\ replies = <<>>
    /\ raised = ""
    /\ response = NoResponse

\* lines 62-65
Validate(argset) ==
    /\ pc = "validate"
    /\ \E a \in argset, b \in argset :
        LET s == strip(ArgGet(a))
            e == strip(ArgGet(b))
        IN  /\ args' = [start |-> a, end |-> b]
            /\ start' = s
            /\ end' = e
            /\ IF s = <<>> \/ e = <<>>
               THEN /\ response' = ErrorResponse(400, "start and end are required")
                    /\ pc' = "done"
               ELSE /\ response' = response
                    /\ pc' = "geocode_start"
    /\ UNCHANGED <<lat1, lon1, lat2, lon2, base_routes, live_routes, calls,
                   replies, raised>>

\* line 68
GeocodeStart(replyset) ==
    /\ pc = "geocode_start"
    /\ \E reply \in replyset :
        LET g == geocode_place(reply)
        IN  /\ calls' = Append(calls, "geocode_start")
            /\ replies' = Append(replies, reply)
            /\ IF g.exc # ""
               THEN /\ raised' = g.exc
                    /\ pc' = "done"
                    /\ UNCHANGED <<lat1, lon1>>
               ELSE /\ lat1' = g.lat
                    /\ lon1' = g.lon
                    /\ pc' = "geocode_end"
                    /\ UNCHANGED raised
    /\ UNCHANGED <<args, start, end, lat2, lon2, base_routes, live_routes,
                   response>>

\* lines 69-73
GeocodeEnd(replyset) ==
    /\ pc = "geocode_end"
    /\ \E reply \in replyset :
        LET g == geocode_place(reply)
        IN  /\ calls' = Append(calls, "geocode_end")
            /\ replies' = Append(replies, reply)
            /\ IF g.exc # ""
               THEN /\ raised' = g.exc
                    /\ pc' = "done"
                    /\ UNCHANGED <<lat2, lon2, response>>
               ELSE /\ lat2' = g.lat
                    /\ lon2' = g.lon
                    /\ UNCHANGED raised
                    /\ IF GeocodeFailed(lat1, g.lat)
                       THEN /\ response' = ErrorResponse(400,
                                   "Could not geocode one or both places.")
                            /\ pc' = "done"
                       ELSE /\ response' = response
                            /\ pc' = "directions_base"
    /\ UNCHANGED <<args, start, end, lat1, lon1, base_routes, live_routes>>

\* lines 76-79
DirectionsBase(replyset) ==
    /\ pc = "directions_base"
    /\ \E reply \in replyset :
        LET d == mapbox_directions(reply)
        IN  /\ calls' = Append(calls, "directions_driving")
            /\ replies' = Append(replies, reply)
            /\ IF d.exc # ""
               THEN /\ raised' = d.exc
                    /\ pc' = "done"
                    /\ UNCHANGED <<base_routes, response>>
               ELSE /\ base_routes' = d.routes
                    /\ UNCHANGED raised
                    /\ IF BaseMissing(d.routes)
                       THEN /\ response' = NoBaseResponse
                            /\ pc' = "done"
                       ELSE /\ response' = response
                            /\ pc' = "directions_live"
    /\ UNCHANGED <<args, start, end, lat1, lon1, lat2, lon2, live_routes>>

\* lines 82-135
DirectionsLive(replyset) ==
    /\ pc = "directions_live"
    /\ \E reply \in replyset :
        LET d == mapbox_directions(reply)
        IN  /\ calls' = Append(calls, "directions_driving-traffic")
            /\ replies' = Append(replies, reply)
            /\ pc' = "done"
            /\ IF d.exc # ""
               THEN /\ raised' = d.exc
                    /\ UNCHANGED <<live_routes, response>>
               ELSE /\ live_routes' = d.routes
                    /\ IF d.routes = <<>>
                       THEN /\ response' = ErrorResponse(404,
                                   "No live traffic routes found")
                            /\ UNCHANGED raised
                       ELSE IF AssemblyRaises(d.routes)
                       THEN /\ raised' = "TypeError"
                            /\ UNCHANGED response
                       ELSE /\ response' = OkResponse(start, end, lat1, lon1,
                                   lat2, lon2,
                                   routes_payload(base_routes, d.routes))
                            /\ UNCHANGED raised
    /\ UNCHANGED <<args, start, end, lat1, lon1, lat2, lon2, base_routes>>

Next ==
    \/ Validate(ArgValues)
    \/ GeocodeStart(GeoReplies)
    \/ GeocodeEnd(GeoReplies)
    \/ DirectionsBase(SimpleReplies)
    \/ DirectionsLive(SimpleReplies)

Spec == Init /\ [][Next]_vars

\* the same handler, fed the replies of the assembly runs
NextAssemble ==
    \/ Validate(GoodArgs)
    \/ GeocodeStart(GeoFound)
    \/ GeocodeEnd(GeoFound)
    \/ DirectionsBase(AssembleBase)
    \/ DirectionsLive(AssembleLive)

SpecAssemble == Init /\ [][NextAssemble]_vars

\* the same handler, fed the replies of the delay runs
NextDelay ==
    \/ Validate(GoodArgs)
    \/ GeocodeStart(GeoFound)
    \/ GeocodeEnd(GeoFound)
    \/ DirectionsBase(DelayBase)
    \/ DirectionsLive(DelayLive)

SpecDelay == Init /\ [][NextDelay]_vars

(***************************************************************************)
(* Vocabulary of the properties.                                           *)
(***************************************************************************)
\* a query parameter that is missing, empty or whitespace-only
Blank(a) == ~a.present \/ \A i \in 1..Len(a.value) : a.value[i] \in Whitespace

\* the i-th outbound call completed without a transport or HTTP-status error
Succeeded(i) == i <= Len(replies) /\ replies[i].kind = "ok"

\* both geocoding calls returned a coordinate
BothGeocoded ==
    /\ Succeeded(1) /\ replies[1].features # <<>>
    /\ Succeeded(2) /\ replies[2].features # <<>>

CallOrder ==
    <<"geocode_start", "geocode_end", "directions_driving",
      "directions_driving-traffic">>

\* the route lists the provider returned
ProviderBase == replies[3].routes

ProviderLive == replies[4].routes

Palette == {"green", "orange", "red", "darkred", "gray"}

\* r is the integer nearest to q/4, the even one of the two when q/4 lies halfway
NearestEven(r, q) ==
    LET e == 4 * r - q
    IN  e \in -2..2 /\ (e \in {-2, 2} => r % 2 = 0)

\* C3: a missing, empty or whitespace-only start or end is answered 400
\* "start and end are required", and no outbound call is issued
C3_BlankRejected ==
    (pc # "validate" /\ (Blank(args.start) \/ Blank(args.end)))
        => /\ response = ErrorResponse(400, "start and end are required")
           /\ calls = <<>>
           /\ raised = ""
           /\ pc = "done"

C3_Witness ==
    /\ pc = "done"
    /\ args.start.present /\ Len(args.start.value) >= 2 /\ Blank(args.start)
    /\ ~Blank(args.end)
    /\ response.status = 400

\* C4: when both geocoding calls complete without error and at least one of
\* them returns zero matches, the answer is 400 "Could not geocode one or both
\* places." and no directions call is issued
C4_GeocodeMiss ==
    (Succeeded(1) /\ Succeeded(2)
        /\ (replies[1].features = <<>> \/ replies[2].features = <<>>))
        => /\ response = ErrorResponse(400, "Could not geocode one or both places.")
           /\ calls = <<"geocode_start", "geocode_end">>
           /\ raised = ""
           /\ pc = "done"

C4_Witness ==
    /\ pc = "done"
    /\ Succeeded(1) /\ replies[1].features # <<>>
    /\ Succeeded(2) /\ replies[2].features = <<>>
    /\ response.status = 400

\* C5: an outbound call that ends in a transport failure or a non-success
\* status is the last call of the request (no retry, no further call); the
\* request ends with that exception unhandled and without any response
C5_FailurePropagates ==
    \A i \in 1..Len(replies) :
        replies[i].kind # "ok"
            => /\ i = Len(replies)
               /\ Len(calls) = i
               /\ \A j \in 1..(i - 1) : calls[j] # calls[i]
               /\ raised = replies[i].kind
               /\ response = NoResponse
               /\ pc = "done"

C5_Witness ==
    /\ pc = "done"
    /\ Len(replies) = 1
    /\ replies[1].kind = "ConnectionError"
    /\ raised = "ConnectionError"

\* C6: with both places geocoded, an empty baseline route set is answered 404
\* "No base routes found" without the live-traffic call being issued; a
\* non-empty baseline set with an empty live set is answered 404 "No live
\* traffic routes found"; neither response carries a routes payload
C6_NoRoutes ==
    /\ (BothGeocoded /\ Succeeded(3) /\ replies[3].routes = <<>>)
        => /\ response = ErrorResponse(404, "No base routes found")
           /\ Len(calls) = 3
           /\ pc = "done"
    /\ (BothGeocoded /\ Succeeded(3) /\ replies[3].routes # <<>>
            /\ Succeeded(4) /\ replies[4].routes = <<>>)
        => /\ response = ErrorResponse(404, "No live traffic routes found")
           /\ pc = "done"

C6_Witness ==
    /\ pc = "done"
    /\ BothGeocoded
    /\ Succeeded(3) /\ replies[3].routes # <<>>
    /\ Succeeded(4) /\ replies[4].routes = <<>>
    /\ response.status = 404

\* C10: the outbound calls are a prefix of geocode(start), geocode(end),
\* directions(driving), directions(driving-traffic), each issued at most once;
\* a directions call is issued only after both geocoding calls returned a
\* coordinate, the live-traffic call only after the baseline call returned at
\* least one route, and a 200 only after all four calls succeeded
C10_CallOrder ==
    /\ Len(calls) <= Len(CallOrder)
    /\ calls = SubSeq(CallOrder, 1, Len(calls))
    /\ Len(replies) = Len(calls)
    /\ Len(calls) >= 3 => (BothGeocoded /\ lat1 # None /\ lat2 # None)
    /\ Len(calls) = 4 => (Succeeded(3) /\ replies[3].routes # <<>>)
    /\ response.status = 200
        => (Len(calls) = 4 /\ \A i \in 1..4 : Succeeded(i))

C10_Witness ==
    /\ response.status = 200
    /\ calls = CallOrder

\* the entry of the 200 response's routes list at position k
Entry(k) == response.body.routes[k]

\* the baseline duration paired with live route k: that of baseline route k,
\* or the live route's own duration when the baseline list is shorter
PairedBase(k) ==
    IF k <= Len(ProviderBase)
    THEN ProviderBase[k].duration
    ELSE ProviderLive[k].duration

\* all four calls succeeded and both directions calls returned routes
AllReturned ==
    /\ BothGeocoded
    /\ Succeeded(3) /\ ProviderBase # <<>>
    /\ Succeeded(4) /\ ProviderLive # <<>>

\* C1 (as stated): the routes list of a 200 response has one entry per live
\* route, in the same order, and each entry has exactly (vertex count - 1)
\* segments, for every vertex count including 0
C1_Original ==
    response.status = 200
        => /\ Len(response.body.routes) = Len(ProviderLive)
           /\ \A k \in 1..Len(ProviderLive) :
                /\ Entry(k).id = k - 1
                /\ Entry(k).distance_m = ProviderLive[k].distance
                /\ Len(Entry(k).segments) = Len(ProviderLive[k].coords) - 1

\* C1 (amended): when all four calls returned, the request ends in a 200
\* response unless the assembly raised TypeError; the routes list of a 200
\* response has one entry per live route, in the same order, and each entry
\* has max(0, vertex count - 1) segments, whatever the lengths of the
\* annotation arrays
C1_SegmentCount ==
    /\ (pc = "done" /\ AllReturned)
        => (response.status = 200 \/ raised = "TypeError")
    /\ response.status = 200
        => /\ AllReturned
           /\ Len(response.body.routes) = Len(ProviderLive)
           /\ \A k \in 1..Len(ProviderLive) :
                /\ Entry(k).id = k - 1
                /\ Entry(k).distance_m = ProviderLive[k].distance
                /\ Len(Entry(k).segments)
                     = Max(0, Len(ProviderLive[k].coords) - 1)

C1_Witness ==
    /\ response.status = 200
    /\ Len(response.body.routes) = 2
    /\ \E k \in 1..2 :
        Len(ProviderLive[k].coords) = 0 /\ Entry(k).segments = <<>>
    /\ \E k \in 1..2 :
        /\ Len(ProviderLive[k].coords) = 2
        /\ ProviderLive[k].congestion = <<>>
        /\ Len(Entry(k).segments) = 1

\* C7: color_for_congestion never fails, and every segment colour of a 200
\* response is the table's colour for its congestion value, gray for every
\* value outside the table (any other string, number, boolean, list, object)
C7_ColorTotal ==
    /\ raised # "TypeError"
    /\ (pc = "done" /\ AllReturned) => response.status = 200
    /\ response.status = 200
        => \A k \in 1..Len(response.body.routes) :
             \A i \in 1..Len(Entry(k).segments) :
                LET seg == Entry(k).segments[i]
                    c == EntryOrNone(ProviderLive[k].congestion, i)
                IN  /\ seg.color \in Palette
                    /\ seg.congestion = c
                    /\ (c.t = "str" /\ c.s = "low") => seg.color = "green"
                    /\ (c.t = "str" /\ c.s = "moderate") => seg.color = "orange"
                    /\ (c.t = "str" /\ c.s = "heavy") => seg.color = "red"
                    /\ (c.t = "str" /\ c.s = "severe") => seg.color = "darkred"
                    /\ (c.t # "str"
                          \/ c.s \notin {"low", "moderate", "heavy", "severe"})
                        => seg.color = "gray"

\* C8: speed_kmh of segment i is round(speed_ms * 3.6, 1) when the aligned
\* speed entry is a number, and null in every other case (array exhausted,
\* null, string, boolean, any other non-number)
C8_SpeedKmh ==
    response.status = 200
        => \A k \in 1..Len(response.body.routes) :
             \A i \in 1..Len(Entry(k).segments) :
                LET seg == Entry(k).segments[i]
                    sp == EntryOrNone(ProviderLive[k].speed, i)
                IN  IF sp.t = "num"
                    THEN /\ seg.speed_kmh.t = "num"
                         /\ 100 * seg.speed_kmh.n - 36 * sp.n \in -49..49
                    ELSE seg.speed_kmh = JNull

\* C2 (as stated): in every route entry of a 200 response,
\* delay_s = max(0, round(traffic_s - base_s)) of the entry's own rounded fields
C2_Original ==
    response.status = 200
        => \A k \in 1..Len(response.body.routes) :
             Entry(k).durations.delay_s
                = Max(0, Entry(k).durations.traffic_s - Entry(k).durations.base_s)

\* C2 (amended): in every route entry of a 200 response, delay_s is
\* max(0, round(live - base)) of the provider's unrounded durations (round to
\* nearest, ties to even); it is never negative and differs from
\* max(0, traffic_s - base_s) of the entry's rounded fields by at most 1
C2_DelayOfRaw ==
    response.status = 200
        => \A k \in 1..Len(response.body.routes) :
             LET d == Entry(k).durations
                 diff == ProviderLive[k].duration - PairedBase(k)
             IN  /\ d.delay_s >= 0
                 /\ \E r \in ((diff \div 4) - 1)..((diff \div 4) + 1) :
                        NearestEven(r, diff) /\ d.delay_s = Max(0, r)
                 /\ NearestEven(d.traffic_s, ProviderLive[k].duration)
                 /\ NearestEven(d.base_s, PairedBase(k))
                 /\ d.delay_s - Max(0, d.traffic_s - d.base_s) \in -1..1

C2_Witness ==
    /\ response.status = 200
    /\ \E k \in 1..Len(response.body.routes) :
        /\ k <= Len(ProviderBase)
        /\ ProviderLive[k].duration % 4 # 0
        /\ Entry(k).durations.delay_s
             # Max(0, Entry(k).durations.traffic_s - Entry(k).durations.base_s)

====
